---- MODULE Spec2Model ----
(***************************************************************************)
(* The job pipeline of the video renderer: the in-memory job store          *)
(* (MemStorage), processVideo (server/services/videoProcessor.ts), and the  *)
(* submit and cancel handlers of server/routes.ts.                          *)
(*                                                                          *)
(* A step of a job is one turn of the event loop: the completion of the     *)
(* outside operation the job awaits (a mkdir, a fetch, ffprobe, ffmpeg, a   *)
(* rename, an rm) and the synchronous code that follows it. MemStorage's    *)
(* methods are async functions with no await inside: the Map is read and    *)
(* written during the call, so a store update takes effect in the turn that *)
(* calls it, and only the continuation after it is deferred. Jobs run       *)
(* interleaved on the one event loop, with each other and with cancels.     *)
(*                                                                          *)
(* Beside the pipeline (Spec, FairSpec) the module holds four smaller       *)
(* specifications over their own variables: the loop-fill as a function     *)
(* (SpecFill), the store's methods and the cancel handler called in any     *)
(* order (SpecStore), the duplicate guard of the asynchronous submit        *)
(* handler (SpecGuard), and the batched downloads of the songs with one     *)
(* step per download (SpecBatch).                                           *)
(***************************************************************************)
EXTENDS Integers, Sequences, FiniteSets, TLC

(* ------------------------------ bounds --------------------------------- *)

\* Jobs that may be submitted in one run.
NumJobs == 2

\* Tracks of one job (the schema asks for 10; the model walks fewer).
NumTracks == 2

\* Cancel requests that may be made in one run.
MaxCancels == 1

\* Failures of the outside world (network, probe, encoder, filesystem) in one run.
MaxFaults == 1

\* Largest track duration and largest target of the loop-fill specification.
MaxDur == 3

MaxT == 4

\* Submit requests to the asynchronous handler in one run.
MaxRequests == 4

(* --------------------------- program constants ------------------------- *)

TARGET_DURATION == 1800

batchSize == 10

\* The ceiling of the development deployment; the schema's default is 3.
MAX_CONCURRENT_JOBS == 1

JobIds == 1..NumJobs

Tracks == 1..NumTracks

\* Durations ffprobe reports for a track, in seconds (parseFloat of its output).
ProbeDurations == {0, 1000}

TerminalStatuses == {"completed", "failed"}

ActiveStatuses == {"downloading", "processing_audio", "creating_video"}

jobStatusSchema ==
    {"queued", "downloading", "processing_audio", "creating_video", "completed", "failed"}

CancelMessage == "Cancelled by user"

(* ------------------------------ job store ------------------------------ *)

\* MemStorage.createVideoJob: the record a new job starts with.
NewJob ==
    [status |-> "queued", progress |-> 0, video_url |-> "null",
     error_message |-> "null", started_at |-> FALSE,
     completed_at |-> FALSE, failed_at |-> FALSE]

\* { ...job, ...updates }
Merge(job, updates) ==
    [f \in DOMAIN job |-> IF f \in DOMAIN updates THEN updates[f] ELSE job[f]]

\* An update computed from the record as it was created, not from the
\* current one: what earlier updates wrote to the other fields is lost.
updateVideoJobStale(store, id, updates) ==
    IF id \notin DOMAIN store
    THEN store
    ELSE [k \in DOMAIN store |-> IF k = id THEN Merge(NewJob, updates) ELSE store[k]]

\* An update that stores a record for an id the store does not hold.
updateVideoJobUpsert(store, id, updates) ==
    [k \in DOMAIN store \cup {id} |->
        IF k = id
        THEN Merge(IF id \in DOMAIN store THEN store[id] ELSE NewJob, updates)
        ELSE store[k]]

\* MemStorage.updateVideoJob: the store after the call.
updateVideoJob(store, id, updates) ==
    IF id \notin DOMAIN store
    THEN store
    ELSE [k \in DOMAIN store |-> IF k = id THEN Merge(store[k], updates) ELSE store[k]]

\* MemStorage.createVideoJob: the store after the call.
createVideoJob(store, id) ==
    [k \in DOMAIN store \cup {id} |-> IF k = id THEN NewJob ELSE store[k]]

\* MemStorage.getJobStats.active
ActiveCount(store) ==
    Cardinality({k \in DOMAIN store : store[k].status \in ActiveStatuses})

(* ------------------------------ loop-fill ------------------------------ *)

RECURSIVE SumSeq(_)
SumSeq(s) == IF s = <<>> THEN 0 ELSE Head(s) + SumSeq(Tail(s))

\* Math.ceil(TARGET_DURATION / totalDuration) for totalDuration >= 0:
\* a division by 0 gives Infinity, and `loop < Infinity` is always true.
LoopsNeededFloor(T, L) ==
    IF L = 0 THEN [inf |-> TRUE, n |-> 0] ELSE [inf |-> FALSE, n |-> T \div L]

LoopsNeeded(T, L) ==
    IF L = 0 THEN [inf |-> TRUE, n |-> 0] ELSE [inf |-> FALSE, n |-> (T + L - 1) \div L]

LoopLess(loop, loops) == loops.inf \/ loop < loops.n

\* The nested loops of the loop-fill from the position (loop, i), with
\* currentDuration = cur and the entries appended so far. An entry is
\* <<track index, included duration>>. startCur is currentDuration at the
\* start of the running cycle: with Infinity cycles to go, a cycle that ends
\* where it began repeats for ever (diverged).
RECURSIVE FillWalk(_, _, _, _, _, _, _, _)
FillWalk(durs, T, loops, loop, i, cur, startCur, manifest) ==
    IF ~LoopLess(loop, loops)
    THEN [manifest |-> manifest, currentDuration |-> cur, diverged |-> FALSE]
    ELSE IF i >= Len(durs)
    THEN IF loops.inf /\ cur = startCur
         THEN [manifest |-> manifest, currentDuration |-> cur, diverged |-> TRUE]
         ELSE FillWalk(durs, T, loops, loop + 1, 0, cur, cur, manifest)
    ELSE LET songDuration == durs[i + 1] IN
         IF cur + songDuration > T
         THEN [manifest |-> Append(manifest, <<i, T - cur>>),
               currentDuration |-> cur, diverged |-> FALSE]
         ELSE IF cur + songDuration >= T
         THEN [manifest |-> Append(manifest, <<i, songDuration>>),
               currentDuration |-> cur + songDuration, diverged |-> FALSE]
         ELSE FillWalk(durs, T, loops, loop, i + 1, cur + songDuration, startCur,
                       Append(manifest, <<i, songDuration>>))

\* The loop-fill with its bound computed from a total one second per track
\* longer than the durations the loops add (a measured total over declared lengths).
LoopFillBoundFromLongerTotal(durs, T) ==
    FillWalk(durs, T, LoopsNeeded(T, SumSeq(durs) + Len(durs)), 0, 0, 0, 0, <<>>)

\* The loop-fill held to a single pass over the tracks.
LoopFillSinglePass(durs, T) ==
    FillWalk(durs, T, [inf |-> FALSE, n |-> 1], 0, 0, 0, 0, <<>>)

\* The loop-fill run to one second past the target.
LoopFillPastTarget(durs, T) ==
    FillWalk(durs, T + 1, LoopsNeeded(T + 1, SumSeq(durs)), 0, 0, 0, 0, <<>>)

\* The loop-fill of processVideo on the chosen durations durs and target T.
LoopFill(durs, T) ==
    FillWalk(durs, T, LoopsNeeded(T, SumSeq(durs)), 0, 0, 0, 0, <<>>)

\* The sum of the included durations of a manifest.
RECURSIVE IncludedSum(_)
IncludedSum(m) == IF m = <<>> THEN 0 ELSE Head(m)[2] + IncludedSum(Tail(m))

(* ------------------------------ downloads ------------------------------ *)

\* What a fetch of an asset answers: response.ok, the content-type header
\* ("none": no header, "image": image/*, "other": anything else) and the
\* leading bytes of the body.
Responses ==
    [ok : BOOLEAN, contentType : {"none", "image", "other"},
     signature : {"png", "jpeg", "other"}]

\* downloadFile with the check of the leading bytes left out.
downloadFileNoSignature(resp, thumbnail) ==
    IF ~resp.ok THEN "Failed to download"
    ELSE IF thumbnail /\ resp.contentType = "other" THEN "Invalid image format"
    ELSE "ok"

\* downloadFile: "ok" when the file is written, else the Error it throws.
\* The image checks run only for a path that includes 'thumbnail'.
downloadFile(resp, thumbnail) ==
    IF ~resp.ok THEN "Failed to download"
    ELSE IF thumbnail /\ resp.contentType = "other" THEN "Invalid image format"
    ELSE IF thumbnail /\ resp.signature = "other" THEN "Invalid image file"
    ELSE "ok"

(* ------------------------------- state --------------------------------- *)

VARIABLES
    jobs,             \* MemStorage.jobs: id -> job record
    created,          \* number of jobs created so far (ids 1..created)
    pc,               \* the operation each job's processVideo awaits
    workspace,        \* whether temp/<jobId> exists
    output,           \* whether output/<jobId>.mp4 exists
    started,          \* track downloads started so far, per job
    actualDurations,  \* the probed durations of a job in its loop-fill
    coverInvalid,     \* whether the cover that was fetched fails the image checks
    webhooks,         \* webhook POSTs made, per job
    rmResult,         \* outcome of fs.rm(jobDir): "none", "ok" or "failed"
    response,         \* the answer of POST /api/video-jobs, per job
    cancels,          \* cancel requests made so far
    faults,           \* failures of the outside world so far
    spin,             \* parity of the loop counter of a loop-fill that never ends
    fdurs,            \* loop-fill specification: the chosen durations
    ftarget,          \* loop-fill specification: the target duration
    fresult,          \* loop-fill specification: the result of the loop-fill
    fdone,            \* loop-fill specification: whether the loop-fill has run
    call,             \* store specification: the last call and its arguments
    returned,         \* store specification: what the last call returned
    activeJobs,       \* duplicate guard: the Set of job keys
    pipelines,        \* duplicate guard: key and state of each submit's pipeline
    songsLength,      \* download batches: requestData.songs.length
    batchStart,       \* download batches: the loop index i
    inFlight,         \* download batches: track indexes being downloaded
    downloaded,       \* download batches: track indexes written to disk
    failedDownloads,  \* download batches: track indexes whose download threw
    batchPc           \* download batches: where processVideo stands

vars ==
    <<jobs, created, pc, workspace, output, started, actualDurations,
      coverInvalid, webhooks, rmResult, response, cancels, faults, spin,
      fdurs, ftarget, fresult, fdone, call, returned, activeJobs, pipelines,
      songsLength, batchStart, inFlight, downloaded, failedDownloads, batchPc>>

pipelineVars ==
    <<jobs, created, pc, workspace, output, started, actualDurations,
      coverInvalid, webhooks, rmResult, response, cancels, faults, spin>>

fillVars == <<fdurs, ftarget, fresult, fdone>>

storeVars == <<call, returned>>

guardVars == <<activeJobs, pipelines>>

batchVars ==
    <<songsLength, batchStart, inFlight, downloaded, failedDownloads, batchPc>>

\* The variables the pipeline's steps leave alone.
sideVars == <<fillVars, storeVars, guardVars, batchVars>>

cancelVars == <<cancels>>

\* No answer to the submit request has been sent.
NoResponse == [code |-> 0, status |-> "none", message |-> "none"]

\* POST /api/video-jobs after `await processVideo`: when processVideo
\* returned, the job is read back and answered with its status and the
\* success message; when it threw, the answer is the 500 response.
SubmitResponse(store, id, thrown) ==
    IF thrown = "none"
    THEN [code |-> 200,
          status |-> IF id \in DOMAIN store THEN store[id].status ELSE "completed",
          message |-> "Video processing completed successfully"]
    ELSE [code |-> 500, status |-> "failed", message |-> thrown]

NoResult == [manifest |-> <<>>, currentDuration |-> 0, diverged |-> FALSE]

PipelineInit ==
    /\ jobs = [k \in {} |-> NewJob]
    /\ created = 0
    /\ pc = [j \in JobIds |-> "idle"]
    /\ workspace = [j \in JobIds |-> FALSE]
    /\ output = [j \in JobIds |-> FALSE]
    /\ started = [j \in JobIds |-> 0]
    /\ actualDurations = [j \in JobIds |-> <<>>]
    /\ coverInvalid = [j \in JobIds |-> FALSE]
    /\ webhooks = [j \in JobIds |-> 0]
    /\ rmResult = [j \in JobIds |-> "none"]
    /\ response = [j \in JobIds |-> NoResponse]
    /\ cancels = 0
    /\ faults = 0
    /\ spin = 0

\* An update object that names no field.
NoUpdate == [x \in {} |-> 0]

NoCall == [op |-> "none", id |-> 0, updates |-> NoUpdate]

NoReturn == [none |-> TRUE]

\* new MemStorage(): no call was made yet.
StoreInit ==
    /\ call = NoCall
    /\ returned = NoReturn

\* const activeJobs = new Set<string>()
GuardInit ==
    /\ activeJobs = {}
    /\ pipelines = <<>>

\* No song list is being downloaded.
BatchIdle ==
    /\ songsLength = 0
    /\ batchStart = 0
    /\ inFlight = {}
    /\ downloaded = {}
    /\ failedDownloads = {}
    /\ batchPc = "idle"

Init ==
    /\ PipelineInit
    /\ fdurs = <<>>
    /\ ftarget = TARGET_DURATION
    /\ fresult = NoResult
    /\ fdone = FALSE
    /\ StoreInit
    /\ GuardInit
    /\ BatchIdle

\* A synchronous loop that never ends keeps the one thread: nothing else runs.
EventLoopFree == \A j \in JobIds : pc[j] # "looping"

Goto(j, next) == pc' = [pc EXCEPT ![j] = next]

\* The updates of processVideo's catch block for the caught error e.
FailedUpdate(e) == [status |-> "failed", error_message |-> e, failed_at |-> TRUE]

\* The turn that follows an awaited outside operation of job j with result r.
\* "ok": the code after the await runs, storage.updateVideoJob(jobId, updates)
\* included, and the job awaits `next`. Otherwise r is the thrown error: the
\* catch block writes the failed status and the job awaits the failure webhook.
\* A failure is taken from the run's budget of failures.
Resume(j, r, next, updates) ==
    IF r = "ok"
    THEN /\ jobs' = updateVideoJob(jobs, j, updates)
         /\ Goto(j, next)
         /\ UNCHANGED faults
    ELSE /\ faults < MaxFaults
         /\ faults' = faults + 1
         /\ jobs' = updateVideoJob(jobs, j, FailedUpdate(r))
         /\ Goto(j, "webhook_failed")

\* No field is updated.
(* --------------------- POST /api/video-jobs (submit) ------------------- *)

\* The handler parses the request, creates the job and calls processVideo,
\* which starts by making its directories.
Submit ==
    /\ EventLoopFree
    /\ created < NumJobs
    /\ created' = created + 1
    /\ jobs' = createVideoJob(jobs, created + 1)
    /\ Goto(created + 1, "mkdir")
    /\ UNCHANGED <<workspace, output, started, actualDurations, coverInvalid,
                   webhooks, rmResult, response, cancelVars, faults, spin, sideVars>>

(* ----------------------------- processVideo ---------------------------- *)

\* await fs.mkdir(jobDir, { recursive: true }) ends: on success the
\* workspace exists, the status becomes 'downloading' and the download of
\* the thumbnail starts.
Mkdir(j) ==
    /\ EventLoopFree
    /\ pc[j] = "mkdir"
    /\ \E r \in {"ok", "mkdir failed"} :
          /\ Resume(j, r, "cover",
                    [status |-> "downloading", started_at |-> TRUE, progress |-> 5])
          /\ workspace' = [workspace EXCEPT ![j] = (r = "ok")]
    /\ UNCHANGED <<created, output, started, actualDurations, coverInvalid,
                   webhooks, rmResult, response, cancelVars, spin, sideVars>>

\* Number of downloads the batch that starts at track index i holds.
BatchLen(i) == IF NumTracks - i < batchSize THEN NumTracks - i ELSE batchSize

\* await downloadFile(requestData.thumbnail_url, thumbnailPath) ends: on
\* success the first batch of track downloads starts.
DownloadCover(j) ==
    /\ EventLoopFree
    /\ pc[j] = "cover"
    /\ \E resp \in Responses :
          LET r == downloadFile(resp, TRUE) IN
          /\ coverInvalid' =
                [coverInvalid EXCEPT
                    ![j] = resp.ok /\ (resp.contentType = "other" \/ resp.signature = "other")]
          /\ Resume(j, r, "batch_wait", NoUpdate)
          /\ started' = [started EXCEPT ![j] = IF r = "ok" THEN BatchLen(0) ELSE @]
    /\ UNCHANGED <<created, workspace, output, actualDurations,
                   webhooks, rmResult, response, cancelVars, spin, sideVars>>

\* A batch whose failure is recorded by the catch block's update while the
\* pipeline goes on to the next stage.
AwaitBatchContinues(j) ==
    /\ EventLoopFree
    /\ pc[j] = "batch_wait"
    /\ \E resp \in Responses :
          LET r == downloadFile(resp, FALSE) IN
          /\ r # "ok" => faults < MaxFaults
          /\ faults' = IF r = "ok" THEN faults ELSE faults + 1
          /\ jobs' = updateVideoJob(jobs, j,
                        IF r = "ok" THEN [status |-> "processing_audio", progress |-> 25]
                        ELSE FailedUpdate(r))
          /\ Goto(j, "probe")
    /\ UNCHANGED <<created, workspace, output, started, actualDurations, coverInvalid,
                   webhooks, rmResult, response, cancelVars, spin, sideVars>>

\* await Promise.all(batchPromises) ends: the first failure of the batch is
\* thrown; else the next batch starts, or after the last batch the status
\* becomes 'processing_audio' and the probes start.
AwaitBatch(j) ==
    /\ EventLoopFree
    /\ pc[j] = "batch_wait"
    /\ \E r \in {downloadFile(resp, FALSE) : resp \in Responses} :
          IF started[j] < NumTracks
          THEN /\ Resume(j, r, "batch_wait", NoUpdate)
               /\ started' = [started EXCEPT ![j] = IF r = "ok" THEN @ + BatchLen(@) ELSE @]
          ELSE /\ Resume(j, r, "probe", [status |-> "processing_audio", progress |-> 25])
               /\ UNCHANGED started
    /\ UNCHANGED <<created, workspace, output, actualDurations, coverInvalid,
                   webhooks, rmResult, response, cancelVars, spin, sideVars>>

\* await Promise.all(durationPromises) ends. A rejected probe rejects the
\* whole and is thrown. Else ffprobe gave every track's duration: progress
\* becomes 45 and the loop-fill runs, in the same turn (the await before it
\* is of a MemStorage call). The loops are synchronous: when they never end,
\* the job stays in them and holds the thread; else fs.writeFile(concat.txt)
\* starts. actualDurations is kept while the loops use it.
Probe(j) ==
    /\ EventLoopFree
    /\ pc[j] = "probe"
    /\ \/ \E d \in [Tracks -> ProbeDurations] :
             IF LoopFill(d, TARGET_DURATION).diverged
             THEN /\ actualDurations' = [actualDurations EXCEPT ![j] = d]
                  /\ Resume(j, "ok", "looping", [progress |-> 45])
             ELSE /\ UNCHANGED actualDurations
                  /\ Resume(j, "ok", "write_concat", [progress |-> 45])
       \/ /\ Resume(j, "ffprobe failed", "write_concat", NoUpdate)
          /\ UNCHANGED actualDurations
    /\ UNCHANGED <<created, workspace, output, started, coverInvalid,
                   webhooks, rmResult, response, cancelVars, spin, sideVars>>

\* await fs.writeFile(concatFilePath, concatContent) ends: on success
\* progress 65, and the audio encode starts.
WriteConcat(j) ==
    /\ EventLoopFree
    /\ pc[j] = "write_concat"
    /\ \E r \in {"ok", "writeFile failed"} :
          Resume(j, r, "ffmpeg_audio", [progress |-> 65])
    /\ UNCHANGED <<created, workspace, output, started, actualDurations, coverInvalid,
                   webhooks, rmResult, response, cancelVars, spin, sideVars>>

\* One more cycle of a loop-fill that never ends.
LoopForever(j) ==
    /\ pc[j] = "looping"
    /\ spin' = 1 - spin
    /\ UNCHANGED <<jobs, created, pc, workspace, output, started, actualDurations,
                   coverInvalid, webhooks, rmResult, response, cancelVars, faults, sideVars>>

\* await executeFFmpeg(audio) ends: exec rejects when the tool exits
\* non-zero; else the status becomes 'creating_video' and the video encode starts.
FfmpegAudio(j) ==
    /\ EventLoopFree
    /\ pc[j] = "ffmpeg_audio"
    /\ \E r \in {"ok", "ffmpeg audio failed"} :
          Resume(j, r, "ffmpeg_video", [status |-> "creating_video", progress |-> 85])
    /\ UNCHANGED <<created, workspace, output, started, actualDurations, coverInvalid,
                   webhooks, rmResult, response, cancelVars, spin, sideVars>>

\* The video encode writing its file straight into the output directory:
\* the file is there whether or not the tool exits with success.
FfmpegVideoIntoOutput(j) ==
    /\ EventLoopFree
    /\ pc[j] = "ffmpeg_video"
    /\ \E r \in {"ok", "ffmpeg video failed"} : Resume(j, r, "rename", NoUpdate)
    /\ output' = [output EXCEPT ![j] = TRUE]
    /\ UNCHANGED <<created, workspace, started, actualDurations, coverInvalid,
                   webhooks, rmResult, response, cancelVars, spin, sideVars>>

\* await executeFFmpeg(video) ends; on success the rename starts.
FfmpegVideo(j) ==
    /\ EventLoopFree
    /\ pc[j] = "ffmpeg_video"
    /\ \E r \in {"ok", "ffmpeg video failed"} : Resume(j, r, "rename", NoUpdate)
    /\ UNCHANGED <<created, workspace, output, started, actualDurations, coverInvalid,
                   webhooks, rmResult, response, cancelVars, spin, sideVars>>

\* A rename that is reported done while no file appears in output/.
RenameFileLost(j) ==
    /\ EventLoopFree
    /\ pc[j] = "rename"
    /\ Goto(j, "renamed")
    /\ UNCHANGED <<jobs, created, workspace, output, started, actualDurations,
                   coverInvalid, webhooks, rmResult, response, cancelVars, faults,
                   spin, sideVars>>

\* fs.rename(tempVideoPath, outputVideoPath) is carried out: the video is
\* in the output directory. The continuation of the await runs in a later
\* turn of the event loop; other requests are served in between.
RenameFile(j) ==
    /\ EventLoopFree
    /\ pc[j] = "rename"
    /\ output' = [output EXCEPT ![j] = TRUE]
    /\ Goto(j, "renamed")
    /\ UNCHANGED <<jobs, created, workspace, started, actualDurations, coverInvalid,
                   webhooks, rmResult, response, cancelVars, faults, spin, sideVars>>

\* await fs.rename(tempVideoPath, outputVideoPath) ends: with an error (no
\* file was moved), or after the file was moved; then the status becomes
\* 'completed' and the webhook block starts.
Rename(j) ==
    /\ EventLoopFree
    /\ \/ /\ pc[j] = "rename"
          /\ Resume(j, "rename failed", "webhook_completed", NoUpdate)
       \/ /\ pc[j] = "renamed"
          /\ Resume(j, "ok", "webhook_completed",
                    [status |-> "completed", progress |-> 100, video_url |-> "url",
                     completed_at |-> TRUE])
    /\ UNCHANGED <<created, workspace, output, started, actualDurations, coverInvalid,
                   webhooks, rmResult, response, cancelVars, spin, sideVars>>

\* Where a job stays when the POST of the webhook block at `at` gets no answer.
Silent(at) ==
    IF at = "webhook_completed" THEN "webhook_completed_silent" ELSE "webhook_failed_silent"

\* The webhook block, in its own try: the POST is made when getVideoJob
\* found the job. Whatever the POST does (ok, a non-success response, a
\* thrown error) is logged, and the cleanup starts. The fetch has no timeout:
\* with a notifier that never answers, the await never ends (a failure of
\* the outside world, taken from the run's budget).
Webhook(j, at, next) ==
    /\ EventLoopFree
    /\ pc[j] = at
    /\ webhooks' = [webhooks EXCEPT ![j] = IF j \in DOMAIN jobs THEN @ + 1 ELSE @]
    /\ \E answer \in {"ok", "not ok", "throws", "never"} :
          IF answer = "never"
          THEN /\ faults < MaxFaults
               /\ faults' = faults + 1
               /\ Goto(j, Silent(at))
          ELSE /\ Goto(j, next)
               /\ UNCHANGED faults
    /\ UNCHANGED <<jobs, created, workspace, output, started, actualDurations,
                   coverInvalid, rmResult, response, cancelVars, spin, sideVars>>

\* The success path's webhook with the catch of its try left out: an error
\* thrown by the POST reaches processVideo's catch block.
WebhookCompletedUnguarded(j) ==
    /\ EventLoopFree
    /\ pc[j] = "webhook_completed"
    /\ webhooks' = [webhooks EXCEPT ![j] = @ + 1]
    /\ \E answer \in {"ok", "not ok", "throws"} :
          IF answer = "throws"
          THEN /\ jobs' = updateVideoJob(jobs, j, FailedUpdate("fetch failed"))
               /\ Goto(j, "webhook_failed")
          ELSE /\ Goto(j, "cleanup_completed")
               /\ UNCHANGED jobs
    /\ UNCHANGED <<created, workspace, output, started, actualDurations,
                   coverInvalid, rmResult, response, cancelVars, faults, spin, sideVars>>

\* The failure path's webhook with a delivery failure written to the job:
\* a non-success response or a thrown error replaces the error message.
WebhookFailedRecordsDelivery(j) ==
    /\ EventLoopFree
    /\ pc[j] = "webhook_failed"
    /\ webhooks' = [webhooks EXCEPT ![j] = @ + 1]
    /\ \E answer \in {"ok", "not ok", "throws"} :
          jobs' = IF answer = "ok" THEN jobs
                  ELSE updateVideoJob(jobs, j, [error_message |-> "webhook failed"])
    /\ Goto(j, "cleanup_failed")
    /\ UNCHANGED <<created, workspace, output, started, actualDurations,
                   coverInvalid, rmResult, response, cancelVars, faults, spin, sideVars>>

WebhookCompleted(j) == Webhook(j, "webhook_completed", "cleanup_completed")

WebhookFailed(j) == Webhook(j, "webhook_failed", "cleanup_failed")

\* await fs.rm(jobDir, { recursive: true }) in its own try: a failure is
\* logged. Without `force`, rm of a directory that was never made fails.
\* processVideo returns, and the submit handler that awaited it answers.
Cleanup(j, at) ==
    /\ EventLoopFree
    /\ pc[j] = at
    /\ \E r \in {"ok", "failed"} :
          /\ IF workspace[j]
             THEN /\ r = "failed" => faults < MaxFaults
                  /\ faults' = IF r = "failed" THEN faults + 1 ELSE faults
             ELSE /\ r = "failed"
                  /\ UNCHANGED faults
          /\ rmResult' = [rmResult EXCEPT ![j] = r]
          /\ workspace' = [workspace EXCEPT ![j] = IF r = "ok" THEN FALSE ELSE @]
    /\ response' = [response EXCEPT ![j] = SubmitResponse(jobs, j, "none")]
    /\ Goto(j, "done")
    /\ UNCHANGED <<jobs, created, output, started, actualDurations,
                   coverInvalid, webhooks, cancelVars, spin, sideVars>>

\* The failure path with its cleanup left out.
CleanupFailedSkipped(j) ==
    /\ EventLoopFree
    /\ pc[j] = "cleanup_failed"
    /\ Goto(j, "done")
    /\ UNCHANGED <<jobs, created, workspace, output, started, actualDurations,
                   coverInvalid, webhooks, rmResult, response, cancelVars, faults, spin, sideVars>>

CleanupCompleted(j) == Cleanup(j, "cleanup_completed")

CleanupFailed(j) == Cleanup(j, "cleanup_failed")

(* ------------------- DELETE /api/video-jobs/:id (cancel) --------------- *)

\* A cancel handler without the check of the job's status.
CancelAnswerUnchecked(store, id) ==
    IF id \notin DOMAIN store THEN "404" ELSE "200"

\* The status of the handler's answer for what storage.getVideoJob(id) returned.
CancelAnswer(store, id) ==
    IF id \notin DOMAIN store THEN "404"
    ELSE IF store[id].status \in TerminalStatuses THEN "400"
    ELSE "200"

CancelUpdate ==
    [status |-> "failed", error_message |-> CancelMessage, failed_at |-> TRUE]

\* A cancel that writes the status alone.
CancelStatusOnly(id) ==
    /\ EventLoopFree
    /\ cancels < MaxCancels
    /\ cancels' = cancels + 1
    /\ jobs' = IF CancelAnswer(jobs, id) = "200"
               THEN updateVideoJob(jobs, id, [status |-> "failed"])
               ELSE jobs
    /\ UNCHANGED <<created, pc, workspace, output, started, actualDurations,
                   coverInvalid, webhooks, rmResult, response, faults, spin, sideVars>>

\* A cancel whose update also sets progress back to 0.
CancelResetsProgress(id) ==
    /\ EventLoopFree
    /\ cancels < MaxCancels
    /\ cancels' = cancels + 1
    /\ jobs' = IF CancelAnswer(jobs, id) = "200"
               THEN updateVideoJob(jobs, id, [status |-> "failed",
                        error_message |-> CancelMessage, failed_at |-> TRUE, progress |-> 0])
               ELSE jobs
    /\ UNCHANGED <<created, pc, workspace, output, started, actualDurations,
                   coverInvalid, webhooks, rmResult, response, faults, spin, sideVars>>

\* The cancel handler: the job is read and checked, then updated. The
\* handler's two awaits are of MemStorage calls, which are complete when
\* they return: nothing that waits for an outside operation runs between them.
Cancel(id) ==
    /\ EventLoopFree
    /\ cancels < MaxCancels
    /\ cancels' = cancels + 1
    /\ jobs' = IF CancelAnswer(jobs, id) = "200"
               THEN updateVideoJob(jobs, id, CancelUpdate)
               ELSE jobs
    /\ UNCHANGED <<created, pc, workspace, output, started, actualDurations,
                   coverInvalid, webhooks, rmResult, response, faults, spin, sideVars>>

(* ---------------------------- specification ---------------------------- *)

Pipeline(j) ==
    \/ Mkdir(j)
    \/ DownloadCover(j)
    \/ AwaitBatch(j)
    \/ Probe(j)
    \/ WriteConcat(j)
    \/ LoopForever(j)
    \/ FfmpegAudio(j)
    \/ FfmpegVideo(j)
    \/ RenameFile(j)
    \/ Rename(j)
    \/ WebhookCompleted(j)
    \/ CleanupCompleted(j)
    \/ WebhookFailed(j)
    \/ CleanupFailed(j)

Next ==
    \/ Submit
    \/ \E j \in JobIds : Pipeline(j)
    \/ \E id \in JobIds : Cancel(id)

Spec == Init /\ [][Next]_vars

\* The event loop runs every continuation that is ready, and every awaited
\* outside operation ends (with a result or an error), but for a webhook POST
\* that was left without an answer.
FairSpec == Spec /\ \A j \in JobIds : WF_vars(Pipeline(j))

(* ----------------------- loop-fill specification ----------------------- *)

\* Two playlists of measured durations, filled to TARGET_DURATION: two
\* tracks of 500, and ten tracks said to total 600 (three cycles to 1800).
ScenarioCut == <<500, 500>>

ScenarioTenTracks == <<60, 90, 45, 30, 75, 50, 40, 65, 55, 85>>

FillInit ==
    /\ PipelineInit
    /\ \/ /\ fdurs \in UNION {[1..n -> 0..MaxDur] : n \in 1..NumTracks}
          /\ ftarget \in 1..MaxT
       \/ /\ fdurs \in {ScenarioCut, ScenarioTenTracks}
          /\ ftarget = TARGET_DURATION
    /\ fresult = NoResult
    /\ fdone = FALSE
    /\ StoreInit
    /\ GuardInit
    /\ BatchIdle

FillApply ==
    /\ ~fdone
    /\ fresult' = LoopFill(fdurs, ftarget)
    /\ fdone' = TRUE
    /\ UNCHANGED <<jobs, created, pc, workspace, output, started, actualDurations,
                   coverInvalid, webhooks, rmResult, response, cancelVars, faults, spin,
                   fdurs, ftarget, storeVars, guardVars, batchVars>>

FillNext == FillApply

SpecFill == FillInit /\ [][FillNext]_vars

(* -------------------------- store specification ------------------------ *)

\* What updateVideoJob returns for an id the store does not hold.
undefined == [undefined |-> TRUE]

\* MemStorage.updateVideoJob: the value the call returns.
updateVideoJobReturn(store, id, updates) ==
    IF id \notin DOMAIN store THEN undefined ELSE Merge(store[id], updates)

\* MemStorage.deleteVideoJob: the store after the call.
deleteVideoJob(store, id) == [k \in DOMAIN store \ {id} |-> store[k]]

\* getJobStats with every job that is not completed or failed counted as active.
getJobStatsActiveNonTerminal(store) ==
    [active |-> Cardinality({k \in DOMAIN store : store[k].status \notin TerminalStatuses}),
     completed |-> Cardinality({k \in DOMAIN store : store[k].status = "completed"}),
     queued |-> Cardinality({k \in DOMAIN store : store[k].status = "queued"}),
     failed |-> Cardinality({k \in DOMAIN store : store[k].status = "failed"})]

\* MemStorage.getJobStats
getJobStats(store) ==
    [active |-> ActiveCount(store),
     completed |-> Cardinality({k \in DOMAIN store : store[k].status = "completed"}),
     queued |-> Cardinality({k \in DOMAIN store : store[k].status = "queued"}),
     failed |-> Cardinality({k \in DOMAIN store : store[k].status = "failed"})]

\* MemStorage.getActiveVideoJobs: the ids of the jobs it returns.
getActiveVideoJobs(store) ==
    {k \in DOMAIN store : ~(store[k].status \in {"completed", "failed"})}

\* Update objects the store is called with: each status alone, the first
\* update of processVideo and the update of a cancel.
Partials ==
    {[status |-> s] : s \in jobStatusSchema}
        \cup {[status |-> "downloading", started_at |-> TRUE, progress |-> 5],
              CancelUpdate}

StoreCreate ==
    /\ created < NumJobs
    /\ created' = created + 1
    /\ jobs' = createVideoJob(jobs, created + 1)
    /\ call' = [op |-> "create", id |-> created + 1, updates |-> NoUpdate]
    /\ returned' = NewJob

StoreUpdate(id, updates) ==
    /\ jobs' = updateVideoJob(jobs, id, updates)
    /\ call' = [op |-> "update", id |-> id, updates |-> updates]
    /\ returned' = updateVideoJobReturn(jobs, id, updates)
    /\ UNCHANGED created

StoreDelete(id) ==
    /\ jobs' = deleteVideoJob(jobs, id)
    /\ call' = [op |-> "delete", id |-> id, updates |-> NoUpdate]
    /\ returned' = [deleted |-> id \in DOMAIN jobs]
    /\ UNCHANGED created

\* The cancel handler on the store: read, check, update, answer.
StoreCancel(id) ==
    /\ jobs' = IF CancelAnswer(jobs, id) = "200"
               THEN updateVideoJob(jobs, id, CancelUpdate)
               ELSE jobs
    /\ call' = [op |-> "cancel", id |-> id, updates |-> NoUpdate]
    /\ returned' = [code |-> CancelAnswer(jobs, id)]
    /\ UNCHANGED created

StoreNext ==
    /\ \/ StoreCreate
       \/ \E id \in JobIds, updates \in Partials : StoreUpdate(id, updates)
       \/ \E id \in JobIds : StoreDelete(id)
       \/ \E id \in JobIds : StoreCancel(id)
    /\ UNCHANGED <<pc, workspace, output, started, actualDurations, coverInvalid,
                   webhooks, rmResult, response, cancelVars, faults, spin,
                   fillVars, guardVars, batchVars>>

SpecStore == Init /\ [][StoreNext]_vars

(* ------------------- duplicate guard (asynchronous submit) ------------- *)

\* Titles and thumbnail URLs of the requests, as strings of characters. The
\* separator of the key may occur in either.
Titles == {<<"a">>, <<"a", "-", "b">>}

ThumbnailUrls == {<<"c">>, <<"b", "-", "c">>}

\* const jobKey = `${jobData.title}-${jobData.thumbnail_url}`
jobKey(title, thumbnail_url) == title \o <<"-">> \o thumbnail_url

\* POST /api/video-jobs of the asynchronous variant: a request whose key is
\* in activeJobs is answered 429; else the key is added, the job is created
\* and processVideo is started without being awaited.
SubmitAsync(title, thumbnail_url) ==
    /\ Len(pipelines) < MaxRequests
    /\ IF jobKey(title, thumbnail_url) \in activeJobs
       THEN /\ pipelines' = Append(pipelines,
                                   [jobKey |-> jobKey(title, thumbnail_url),
                                    state |-> "429"])
            /\ UNCHANGED activeJobs
       ELSE /\ activeJobs' = activeJobs \cup {jobKey(title, thumbnail_url)}
            /\ pipelines' = Append(pipelines,
                                   [jobKey |-> jobKey(title, thumbnail_url),
                                    state |-> "running"])

\* A handler whose .catch callback keeps the key.
SettledThenOnly(n) ==
    /\ n \in DOMAIN pipelines
    /\ pipelines[n].state = "running"
    /\ \E outcome \in {"fulfilled", "rejected"} :
          activeJobs' = IF outcome = "fulfilled"
                        THEN activeJobs \ {pipelines[n].jobKey}
                        ELSE activeJobs
    /\ pipelines' = [pipelines EXCEPT ![n].state = "settled"]

\* The promise of processVideo settles: the .then callback and the .catch
\* callback both delete the key.
Settled(n) ==
    /\ n \in DOMAIN pipelines
    /\ pipelines[n].state = "running"
    /\ \E outcome \in {"fulfilled", "rejected"} :
          activeJobs' = activeJobs \ {pipelines[n].jobKey}
    /\ pipelines' = [pipelines EXCEPT ![n].state = "settled"]

GuardNext ==
    /\ \/ \E title \in Titles, thumbnail_url \in ThumbnailUrls :
             SubmitAsync(title, thumbnail_url)
       \/ \E n \in 1..MaxRequests : Settled(n)
    /\ UNCHANGED <<pipelineVars, fillVars, storeVars, batchVars>>

SpecGuard == Init /\ [][GuardNext]_vars

(* --------------------------- download batches -------------------------- *)

\* Lengths of requestData.songs: the 10 songs the schema asks for, and a
\* longer list, which the loop of processVideo is written for as well.
SongListLengths == {batchSize, batchSize + NumTracks}

\* Every remaining song in one batch.
batchWholeList(i, length) == i..(length - 1)

\* requestData.songs.slice(i, i + batchSize): the indexes of the batch.
batch(i, length) == {k \in i..(length - 1) : k < i + batchSize}

\* processVideo after the download of the thumbnail, before the loop.
BatchInit ==
    /\ PipelineInit
    /\ fdurs = <<>>
    /\ ftarget = TARGET_DURATION
    /\ fresult = NoResult
    /\ fdone = FALSE
    /\ StoreInit
    /\ GuardInit
    /\ songsLength \in SongListLengths
    /\ batchStart = 0
    /\ inFlight = {}
    /\ downloaded = {}
    /\ failedDownloads = {}
    /\ batchPc = "cover"

\* The first pass of the loop: downloadFile is called for each song of the
\* first batch, and Promise.all of the batch is awaited.
StartSongs ==
    /\ batchPc = "cover"
    /\ inFlight' = batch(0, songsLength)
    /\ batchPc' = "await"
    /\ UNCHANGED <<songsLength, batchStart, downloaded, failedDownloads>>

\* The download of song t ends. The first that throws rejects Promise.all,
\* and processVideo goes to its catch block while the other downloads of the
\* batch go on. When the last of the batch is written, Promise.all resolves
\* and the loop starts the next batch in the same turn, or ends.
DownloadEnds(t) ==
    /\ t \in inFlight
    /\ \E r \in {downloadFile(resp, FALSE) : resp \in Responses} :
          IF r = "ok"
          THEN /\ downloaded' = downloaded \cup {t}
               /\ UNCHANGED failedDownloads
               /\ IF batchPc = "await" /\ inFlight = {t}
                  THEN /\ batchStart' = batchStart + batchSize
                       /\ IF batchStart + batchSize < songsLength
                          THEN /\ inFlight' = batch(batchStart + batchSize, songsLength)
                               /\ UNCHANGED batchPc
                          ELSE /\ inFlight' = {}
                               /\ batchPc' = "downloaded"
                  ELSE /\ inFlight' = inFlight \ {t}
                       /\ UNCHANGED <<batchStart, batchPc>>
          ELSE /\ Cardinality(failedDownloads) < MaxFaults
               /\ failedDownloads' = failedDownloads \cup {t}
               /\ inFlight' = inFlight \ {t}
               /\ batchPc' = IF batchPc = "await" THEN "catch" ELSE batchPc
               /\ UNCHANGED <<batchStart, downloaded>>
    /\ UNCHANGED songsLength

BatchNext ==
    /\ \/ StartSongs
       \/ \E t \in 0..(batchSize + NumTracks) : DownloadEnds(t)
    /\ UNCHANGED <<pipelineVars, fillVars, storeVars, guardVars>>

SpecBatch == BatchInit /\ [][BatchNext]_vars

(* ------------------------------- claims -------------------------------- *)

Status(j) == jobs[j].status

\* C1: terminal states are absorbing. Once a job's recorded status is
\* completed or failed, no later step (of processVideo or of a cancel)
\* changes it; so no job is seen in both.
C1_TerminalAbsorbing ==
    [][\A j \in DOMAIN jobs :
          Status(j) \in TerminalStatuses => jobs'[j].status = Status(j)]_vars

\* C2: for chosen durations with at least one d_i > 0 and a target T > 0 the
\* loop-fill ends, and the included durations of its manifest sum to T.
C2_FillSumsToTarget ==
    (fdone /\ \E i \in DOMAIN fdurs : fdurs[i] > 0)
        => /\ ~fresult.diverged
           /\ IncludedSum(fresult.manifest) = ftarget

\* C2's case: the loop-fill ran, wrapped around and cut its last entry short.
C2_Witness ==
    /\ fdone
    /\ Len(fresult.manifest) > Len(fdurs)
    /\ LET last == fresult.manifest[Len(fresult.manifest)] IN
          last[2] < fdurs[last[1] + 1]
    /\ IncludedSum(fresult.manifest) = ftarget

AllNonPositive(d) == d # <<>> /\ \A i \in DOMAIN d : d[i] <= 0

\* C3: a job whose chosen durations are all <= 0 leaves the loop-fill and
\* ends failed.
C3_NonPositiveDurationsFail ==
    \A j \in JobIds :
        AllNonPositive(actualDurations[j])
            ~> (pc[j] # "looping" /\ j \in DOMAIN jobs /\ Status(j) = "failed")

\* The status that follows s on the path to completed.
NextStatus(s) ==
    CASE s = "queued" -> "downloading"
      [] s = "downloading" -> "processing_audio"
      [] s = "processing_audio" -> "creating_video"
      [] s = "creating_video" -> "completed"
      [] OTHER -> "none"

\* C4: a job's statuses are a prefix of queued -> downloading ->
\* processing_audio -> creating_video -> completed, optionally ended by
\* failed: every change of status is to the next status of the path or to
\* failed, and a completed or failed job changes no more.
C4_StatusPath ==
    [][\A j \in DOMAIN jobs :
          \/ jobs'[j].status = Status(j)
          \/ /\ Status(j) \notin TerminalStatuses
             /\ jobs'[j].status \in {NextStatus(Status(j)), "failed"}]_vars

\* C5 as claimed: whenever a job's recorded status is completed or failed,
\* its workspace does not exist.
C5_NoWorkspaceWhenTerminal ==
    \A j \in DOMAIN jobs : Status(j) \in TerminalStatuses => ~workspace[j]

\* C5 as amended: once processVideo has returned for a job, the job's status
\* is completed or failed and its workspace does not exist, unless the
\* deletion itself failed.
C5_NoWorkspaceAfterReturn ==
    \A j \in JobIds :
        pc[j] = "done"
            => /\ Status(j) \in TerminalStatuses
               /\ rmResult[j] # "failed" => ~workspace[j]

\* C5's case: a failed job whose processVideo has returned and deleted the workspace.
C5_Witness ==
    \E j \in JobIds :
        /\ pc[j] = "done"
        /\ Status(j) = "failed"
        /\ rmResult[j] = "ok"
        /\ ~workspace[j]

\* C6: the number of jobs in an active stage never exceeds MAX_CONCURRENT_JOBS.
C6_ConcurrencyCeiling == ActiveCount(jobs) <= MAX_CONCURRENT_JOBS

\* C7: a cancel of an existing job that is not completed or failed sets, in
\* its one update, that job's status to failed with the message "Cancelled
\* by user" (and failed_at) and changes nothing else; a cancel of an unknown
\* id answers 404 and changes no job.
C7_CancelEffect ==
    [][\A id \in JobIds :
          Cancel(id) =>
             IF id \notin DOMAIN jobs
             THEN CancelAnswer(jobs, id) = "404" /\ jobs' = jobs
             ELSE Status(id) \notin TerminalStatuses
                    => /\ CancelAnswer(jobs, id) = "200"
                       /\ jobs' = [jobs EXCEPT ![id] =
                                      [@ EXCEPT !.status = "failed",
                                                !.error_message = "Cancelled by user",
                                                !.failed_at = TRUE]]]_vars

\* C7's case: a job that a cancel has moved from an active stage to failed.
C7_Witness ==
    \E j \in DOMAIN jobs :
        /\ Status(j) = "failed"
        /\ jobs[j].error_message = "Cancelled by user"
        /\ jobs[j].progress > 0
        /\ cancels > 0

\* C8: the webhook is POSTed at most once for a job, and only when the
\* job's terminal status is in the store.
C8_WebhookOnceAfterTerminal ==
    \A j \in JobIds :
        /\ webhooks[j] <= 1
        /\ webhooks[j] >= 1 => (j \in DOMAIN jobs /\ Status(j) \in TerminalStatuses)

\* C8's case: a completed job whose webhook has been POSTed.
C8_Witness ==
    \E j \in DOMAIN jobs : webhooks[j] = 1 /\ Status(j) = "completed"

\* C9: whatever the probes do, the job goes on from them to the composition.
C9_ProbeFailureFallsBack ==
    [][\A j \in JobIds :
          (pc[j] = "probe" /\ pc'[j] # "probe")
              => pc'[j] \in {"write_concat", "looping"}]_vars

\* C10: a job whose cover fails the image checks is failed and starts no
\* track download.
C10_InvalidCoverFailsFast ==
    \A j \in JobIds :
        coverInvalid[j] => (started[j] = 0 /\ Status(j) = "failed")

\* C10's case: a job with an invalid cover whose processVideo has returned.
C10_Witness ==
    \E j \in JobIds : coverInvalid[j] /\ pc[j] = "done" /\ Status(j) = "failed"


\* The errors downloadFile throws.
DownloadErrors == {"Failed to download", "Invalid image format", "Invalid image file"}

\* The await points of processVideo's catch block, and its return.
CatchPath == {"webhook_failed", "webhook_failed_silent", "cleanup_failed", "done"}

\* C11: when the download of the cover or of a track fails, the job is
\* failed and processVideo is in its catch block or has returned: no probe,
\* no loop-fill and no encode comes after the failure.
C11_DownloadFailureAborts ==
    \A j \in DOMAIN jobs :
        jobs[j].error_message \in DownloadErrors
            => (Status(j) = "failed" /\ pc[j] \in CatchPath)

\* C11's case: a job one of whose track downloads failed, after processVideo returned.
C11_Witness ==
    \E j \in DOMAIN jobs :
        /\ jobs[j].error_message = "Failed to download"
        /\ started[j] > 0
        /\ pc[j] = "done"


\* The errors executeFFmpeg rejects with (exec's error: the command and its stderr).
EncodingErrors == {"ffmpeg audio failed", "ffmpeg video failed"}

\* C12: a failed encode is fatal. The job is failed with the tool's error as
\* its message, processVideo is in its catch block or has returned (after a
\* failed audio encode no video encode is started), and the output
\* directory holds no file of the job.
C12_EncodeFailureFatal ==
    \A j \in DOMAIN jobs :
        jobs[j].error_message \in EncodingErrors
            => /\ Status(j) = "failed"
               /\ pc[j] \in CatchPath
               /\ ~output[j]

\* C12's case: a job whose video encode failed, after processVideo returned.
C12_Witness ==
    \E j \in DOMAIN jobs :
        /\ jobs[j].error_message = "ffmpeg video failed"
        /\ pc[j] = "done"
        /\ ~output[j]


\* Whether the loops of a loop-fill result were left by one of the two
\* breaks: currentDuration reached T, or the last entry was cut to T - currentDuration.
LeftByBreak(durs, T, res) ==
    \/ res.currentDuration = T
    \/ /\ res.manifest # <<>>
       /\ LET last == res.manifest[Len(res.manifest)] IN
             /\ res.currentDuration + durs[last[1] + 1] > T
             /\ last[2] = T - res.currentDuration

\* The cycles a manifest over n tracks spans.
CyclesUsed(m, n) == (Len(m) + n - 1) \div n

\* C13: with a total L > 0 of the durations the loops add, the loops are left
\* by a break, within ceil(T / L) cycles: the bound never ends them first.
C13_BoundNeverCutsShort ==
    (fdone /\ SumSeq(fdurs) > 0)
        => /\ LeftByBreak(fdurs, ftarget, fresult)
           /\ CyclesUsed(fresult.manifest, Len(fdurs)) <= LoopsNeeded(ftarget, SumSeq(fdurs)).n

\* C13's case: a loop-fill that needed every one of its ceil(T / L) >= 2 cycles.
C13_Witness ==
    /\ fdone
    /\ SumSeq(fdurs) > 0
    /\ LoopsNeeded(ftarget, SumSeq(fdurs)).n >= 2
    /\ CyclesUsed(fresult.manifest, Len(fdurs)) = LoopsNeeded(ftarget, SumSeq(fdurs)).n
    /\ LeftByBreak(fdurs, ftarget, fresult)


\* The full duration of the track of manifest entry k.
FullDuration(durs, m, k) == durs[m[k][1] + 1]

\* The sum of the full durations of the first n entries of a manifest.
RECURSIVE FullSum(_, _, _)
FullSum(durs, m, n) ==
    IF n = 0 THEN 0 ELSE FullDuration(durs, m, n) + FullSum(durs, m, n - 1)

\* m is the shortest prefix of the repeated track sequence whose full
\* durations reach T, every entry in full but the last, which is included
\* for T less the entries before it.
ShortestPrefix(durs, T, m) ==
    LET n == Len(m) IN
    /\ n >= 1
    /\ \A k \in 1..n : m[k][1] = (k - 1) % Len(durs)
    /\ \A k \in 1..(n - 1) : m[k][2] = FullDuration(durs, m, k)
    /\ m[n][2] = T - FullSum(durs, m, n - 1)
    /\ m[n][2] <= FullDuration(durs, m, n)
    /\ FullSum(durs, m, n - 1) < T
    /\ FullSum(durs, m, n) >= T

\* C14 as claimed: the manifest is that shortest prefix; for [500,500] and
\* T = 1800 it has 3 entries, the last included for 300; for the ten tracks
\* it has 30 entries, none cut.
C14_ShortestPrefixThreeEntries ==
    (fdone /\ SumSeq(fdurs) > 0)
        => LET m == fresult.manifest IN
           /\ ShortestPrefix(fdurs, ftarget, m)
           /\ (fdurs = ScenarioCut /\ ftarget = 1800)
                 => (Len(m) = 3 /\ m[Len(m)][2] = 300)
           /\ (fdurs = ScenarioTenTracks /\ ftarget = 1800)
                 => (Len(m) = 30 /\ m[Len(m)][2] = FullDuration(fdurs, m, Len(m)))

\* C14 as amended: the same, with 4 entries for [500,500] and T = 1800 (two
\* of the first cycle, one in full and one cut to 300 of the second), and
\* with 31 entries for the ten tracks, whose total is 595: three cycles
\* reach 1785 and the first track of the fourth is cut to 15.
C14_ShortestPrefix ==
    (fdone /\ SumSeq(fdurs) > 0)
        => LET m == fresult.manifest IN
           /\ ShortestPrefix(fdurs, ftarget, m)
           /\ (fdurs = ScenarioCut /\ ftarget = 1800)
                 => (Len(m) = 4 /\ m[Len(m)][2] = 300)
           /\ (fdurs = ScenarioTenTracks /\ ftarget = 1800)
                 => (Len(m) = 31 /\ m[Len(m)] = <<0, 15>>)

\* C14's case: the loop-fill of [500,500] to 1800 has run and cut its last entry to 300.
C14_Witness ==
    /\ fdone
    /\ fdurs = ScenarioCut
    /\ ftarget = 1800
    /\ fresult.manifest = <<<<0, 500>>, <<1, 500>>, <<0, 500>>, <<1, 300>>>>


\* C15: when one pass over the tracks reaches T, the manifest has at most N
\* entries, of the tracks 0, 1, 2, ... in order: no track twice, no wraparound.
C15_SinglePass ==
    (fdone /\ SumSeq(fdurs) >= ftarget)
        => LET m == fresult.manifest IN
           /\ Len(m) <= Len(fdurs)
           /\ \A k \in 1..Len(m) : m[k][1] = k - 1

\* C15's case: a pass that reaches T exactly with its last track, after the loop-fill ran.
C15_Witness ==
    /\ fdone
    /\ Len(fdurs) >= 2
    /\ SumSeq(fdurs) = ftarget
    /\ fdurs[Len(fdurs)] > 0
    /\ Len(fresult.manifest) = Len(fdurs)


\* C16: a job's progress is within 0..100 and no step, of the pipeline or of
\* a cancel, lowers it.
C16_ProgressMonotone ==
    /\ [](\A j \in DOMAIN jobs : jobs[j].progress \in 0..100)
    /\ [][\A j \in DOMAIN jobs : jobs'[j].progress >= jobs[j].progress]_vars

\* C16's case: a job that was cancelled on its way and went on to progress 100.
C16_Witness ==
    \E j \in DOMAIN jobs :
        /\ jobs[j].progress = 100
        /\ jobs[j].error_message = CancelMessage


\* C17: video_url is set only on a completed job, error_message only on a
\* failed job, and completed_at and failed_at are never both set.
C17_FieldsMatchStatus ==
    \A j \in DOMAIN jobs :
        /\ jobs[j].video_url # "null" => Status(j) = "completed"
        /\ jobs[j].error_message # "null" => Status(j) = "failed"
        /\ ~(jobs[j].completed_at /\ jobs[j].failed_at)


\* The await points inside processVideo's catch block.
CatchBlock == {"webhook_failed", "webhook_failed_silent", "cleanup_failed"}

\* A job is in a fatal condition when processVideo caught an error for it,
\* or when its playlist is degenerate (every chosen duration <= 0).
FatalCondition(j) == pc[j] \in CatchBlock \/ AllNonPositive(actualDurations[j])

\* Every error that processVideo catches is in the store: the job is failed
\* with a message, in the catch block and after the return.
C18_CaughtErrorVisible ==
    \A j \in JobIds :
        /\ pc[j] \in CatchBlock
              => (Status(j) = "failed" /\ jobs[j].error_message # "null")
        /\ pc[j] = "done"
              => \/ Status(j) = "completed"
                 \/ (Status(j) = "failed" /\ jobs[j].error_message # "null")

\* C18: every job in a fatal condition (download, cover validation,
\* composition, encoding) comes to be failed with a message in the store;
\* none stays in a non-terminal status for ever.
C18_FatalErrorVisible ==
    \A j \in JobIds :
        FatalCondition(j)
            ~> (j \in DOMAIN jobs /\ Status(j) = "failed" /\ jobs[j].error_message # "null")


\* C19: once a job's status is completed or failed, the deletion of its
\* workspace comes to be attempted, whatever the notifier does; and the
\* step that attempts it leaves the job's record as it is.
C19_DeletionUnconditional ==
    /\ \A j \in JobIds :
          (j \in DOMAIN jobs /\ Status(j) \in TerminalStatuses) ~> (rmResult[j] # "none")
    /\ [][\A j \in JobIds : rmResult'[j] # rmResult[j] => jobs' = jobs]_vars


\* GET /api/videos/<jobId>.mp4: what the handler answers for job j's file.
RetrieveAnswer(out, j) == IF out[j] THEN "200" ELSE "404"

\* C20: while a job's status is not completed, the retrieval of its video
\* answers not-found.
C20_NotFoundUntilCompleted ==
    \A j \in DOMAIN jobs :
        Status(j) # "completed" => RetrieveAnswer(output, j) = "404"


C22_AnswerBeforePipelineEnds ==
    \A j \in DOMAIN jobs :
        /\ pc[j] \in {"mkdir", "cover", "batch_wait"} => response[j] # NoResponse
        /\ response[j] # NoResponse => response[j].status = "queued"

\* C27: the submit request is answered with status completed and the
\* success message only when the job completed, and with the 500 response
\* whenever the job failed.
C27_AnswerMatchesOutcome ==
    \A j \in DOMAIN jobs :
        response[j] # NoResponse =>
            /\ response[j].code = 200 =>
                  /\ Status(j) = "completed"
                  /\ response[j].status = "completed"
            /\ Status(j) = "failed" =>
                  /\ response[j].code = 500
                  /\ response[j].status = "failed"
                  /\ response[j].message = jobs[j].error_message


\* The errors processVideo's catch block can be handed.
ThrownErrors ==
    DownloadErrors \cup EncodingErrors
        \cup {"mkdir failed", "ffprobe failed", "writeFile failed", "rename failed"}

\* The update objects processVideo and the cancel handler pass to the store.
StoreUpdates ==
    {[status |-> "downloading", started_at |-> TRUE, progress |-> 5],
     [status |-> "processing_audio", progress |-> 25],
     [progress |-> 45],
     [progress |-> 65],
     [status |-> "creating_video", progress |-> 85],
     [status |-> "completed", progress |-> 100, video_url |-> "url",
      completed_at |-> TRUE],
     CancelUpdate}
        \cup {FailedUpdate(e) : e \in ThrownErrors}

\* C23: a store update is atomic. Every step that changes a stored record
\* applies one whole update to the record as it stood: all the fields the
\* update names get their new values together and every other field keeps
\* the value earlier updates gave it, also when the updates of the pipeline
\* and of a cancel alternate.
C23_UpdateAtomic ==
    [][\/ jobs' = jobs
       \/ \A j \in DOMAIN jobs :
             \/ jobs'[j] = jobs[j]
             \/ \E u \in StoreUpdates :
                   \A f \in DOMAIN jobs[j] :
                       jobs'[j][f] = IF f \in DOMAIN u THEN u[f] ELSE jobs[j][f]]_vars

\* C23's case: a cancel came between two updates of the pipeline; the record
\* holds the pipeline's later status and progress together and still the
\* error message and failure time the cancel wrote.
C23_Witness ==
    \E j \in DOMAIN jobs :
        /\ jobs[j].status = "processing_audio"
        /\ jobs[j].progress = 25
        /\ jobs[j].started_at
        /\ jobs[j].error_message = CancelMessage
        /\ jobs[j].failed_at


\* C24: updateVideoJob on an id the store does not hold returns undefined
\* and leaves the store as it was; on an id it holds it sets the fields the
\* update names, on that job, keeps the job's other fields and every other
\* job, and returns the updated job.
C24_UpdateFrame ==
    [][call'.op = "update" =>
          IF call'.id \notin DOMAIN jobs
          THEN /\ jobs' = jobs
               /\ returned' = undefined
          ELSE /\ DOMAIN jobs' = DOMAIN jobs
               /\ \A k \in DOMAIN jobs \ {call'.id} : jobs'[k] = jobs[k]
               /\ \A f \in DOMAIN jobs[call'.id] :
                     jobs'[call'.id][f] =
                         IF f \in DOMAIN call'.updates
                         THEN call'.updates[f]
                         ELSE jobs[call'.id][f]
               /\ returned' = jobs'[call'.id]]_vars

\* C24's case: an update of a job that was deleted, another job being stored.
C24_Witness ==
    /\ call.op = "update"
    /\ call.id \in 1..created
    /\ call.id \notin DOMAIN jobs
    /\ returned = undefined
    /\ DOMAIN jobs # {}

\* C30: the four counters of getJobStats add up to the number of stored
\* jobs, and getActiveVideoJobs returns exactly the jobs that are neither
\* completed nor failed: those counted as active or as queued.
C30_StatsPartition ==
    LET stats == getJobStats(jobs) IN
        /\ stats.active + stats.completed + stats.queued + stats.failed
               = Cardinality(DOMAIN jobs)
        /\ \A k \in DOMAIN jobs :
               k \in getActiveVideoJobs(jobs) <=> Status(k) \notin TerminalStatuses
        /\ Cardinality(getActiveVideoJobs(jobs)) = stats.active + stats.queued

\* C30's case: after creates, updates and a delete the store holds one job,
\* which is in an active status.
C30_Witness ==
    /\ created = NumJobs
    /\ Cardinality(DOMAIN jobs) = 1
    /\ call.op = "delete"
    /\ returned = [deleted |-> TRUE]
    /\ \E k \in DOMAIN jobs : Status(k) = "processing_audio"

\* C26: a cancel of a completed or failed job is answered 400 and changes
\* no record, whatever updates came before it; no cancel changes the
\* status of a completed job.
C26_CancelTerminalRejected ==
    [][call'.op = "cancel" =>
          /\ (call'.id \in DOMAIN jobs /\ Status(call'.id) \in TerminalStatuses)
                 => (jobs' = jobs /\ returned' = [code |-> "400"])
          /\ \A k \in DOMAIN jobs :
                 Status(k) = "completed"
                     => (k \in DOMAIN jobs' /\ jobs'[k].status = "completed")]_vars

\* C26's case: a cancel of a completed job was answered 400.
C26_Witness ==
    /\ call.op = "cancel"
    /\ call.id \in DOMAIN jobs
    /\ Status(call.id) = "completed"
    /\ returned = [code |-> "400"]


\* The requests whose pipeline is in flight.
Running == {n \in DOMAIN pipelines : pipelines[n].state = "running"}

\* C28: at most one pipeline is in flight per key, activeJobs holding
\* exactly the keys of the pipelines in flight; a request is answered 429
\* exactly when a pipeline with its key is in flight; and the step in which
\* a pipeline ends, fulfilled or rejected, removes its key.
C28_DuplicateGuard ==
    /\ [](/\ \A m, n \in Running :
                pipelines[m].jobKey = pipelines[n].jobKey => m = n
          /\ activeJobs = {pipelines[n].jobKey : n \in Running})
    /\ [][/\ Len(pipelines') > Len(pipelines) =>
                (pipelines'[Len(pipelines')].state = "429"
                    <=> \E n \in Running :
                           pipelines[n].jobKey = pipelines'[Len(pipelines')].jobKey)
          /\ \A n \in Running :
                pipelines'[n].state = "settled"
                    => pipelines[n].jobKey \notin activeJobs']_vars

\* C28's case: a pipeline ended, a request with its key made while it ran
\* was answered 429, and a request with its key made after it ended was
\* accepted and is running.
C28_Witness ==
    \E k, m, n \in DOMAIN pipelines :
        /\ k < m /\ m < n
        /\ pipelines[k].jobKey = pipelines[m].jobKey
        /\ pipelines[k].jobKey = pipelines[n].jobKey
        /\ pipelines[k].state = "settled"
        /\ pipelines[m].state = "429"
        /\ pipelines[n].state = "running"


C29_CompletedHasArtifact ==
    \A j \in DOMAIN jobs :
        Status(j) = "completed"
            => /\ jobs[j].progress = 100
               /\ jobs[j].video_url # "null"
               /\ jobs[j].completed_at
               /\ output[j]

\* C29's case: a completed job whose pipeline has returned, after its
\* webhook and the removal of its workspace.
C29_Witness ==
    \E j \in DOMAIN jobs :
        /\ Status(j) = "completed"
        /\ pc[j] = "done"
        /\ webhooks[j] = 1
        /\ ~workspace[j]
        /\ output[j]

====
